---- MODULE Spec2Model ----
(***************************************************************************)
(* Paginated list synchronisation: the useWildcardList hook (client cache  *)
(* of one list) against the SQLite-backed wildcard endpoints of the        *)
(* server (cursor pagination on rowid DESC).                              *)
(*                                                                         *)
(* Strings are sequences of one-character strings, so that LIKE can be    *)
(* evaluated character by character.  The absent cursor (null) is 0:      *)
(* SQLite rowids start at 1.                                               *)
(***************************************************************************)
EXTENDS Integers, Sequences, FiniteSets, TLC

\* ---------------------------------------------------------------- bounds
\* Page size requested by the hook (50 in the source, scaled down).
PAGE_SIZE == 2
\* Server-side clamp of the limit parameter (200 in the source, scaled down).
MAX_LIMIT == 3
\* Server-side default of the limit parameter (50 in the source, scaled down).
DEFAULT_LIMIT == 2
\* Number of rows in the table at start-up.
InitRows == 3
\* Record ids are 1..MaxId: at most MaxId records are ever created.
MaxId == 4
\* At most MaxPages page responses are applied between two query changes.
MaxPages == 4
\* At most MaxInflight page requests are tracked at once.
MaxInflight == 2
\* At most MaxPending persistence calls are on their way to the server at once.
MaxPending == 1
\* Largest raw limit parameter sent by the probing client of the store.
MaxProbeLimit == 4
\* Slots the virtualizer renders at once, overscan included.
VIEW_SLOTS == 2
\* Trailing threshold of the loadMore effect (5 in the source, scaled down).
TRAIL == 1
\* At most MaxLinks preview rows per record.
MaxLinks == 2
\* The debounce period of the wheel handler in clock ticks (1000 ms in the
\* source, scaled down).
DEBOUNCE == 2
\* At most MaxCalls set-default calls of one card are counted.
MaxCalls == 2

NoCursor == 0
\* preview_url IS NULL
NoUrl == ""
\* Image references that can be linked to a record.
Urls == {"u1", "u2"}

Lists == {"generated", "saved"}
\* The list this hook instance manages; the other list shares the table.
list == "generated"

Texts == {<<"a">>, <<"b">>}
Queries == {<<>>, <<"a">>}
\* Texts and queries used when the store is exercised on its own.
StoreTexts == {<<"a">>, <<"A", "b">>, <<"b">>}
StoreQueries == {<<>>, <<"a">>, <<"a", "b">>, <<"_">>}

VARIABLES
  store,          \* the wildcards table: set of rows [id, rowid, list, text]
  nextId,         \* next unused record id (ids are unique per created record)
  pending,        \* fire-and-forget persistence calls not yet handled by the server
  items,          \* useState items
  dbFetched,      \* useState dbFetched
  serverTotal,    \* useState serverTotal
  isLoadingMore,  \* useState isLoadingMore
  isInitialLoad,  \* useState isInitialLoad
  nextCursorRef,  \* useRef nextCursorRef
  isFetchingRef,  \* useRef isFetchingRef
  activeQueryRef, \* useRef activeQueryRef (= the searchQuery prop after its effect ran)
  inflight,       \* page requests issued by fetchPage and not yet settled; seen0 and
                  \* seen are `newest` when the request was sent and when it was
                  \* handled, match tells whether that row matched the query
  pages,          \* history: pages applied to the cache since the last query change
  newest,         \* history: id of the row most recently inserted into `list`, 0 if gone
  lastOp,         \* history: the operation that produced the current state
  probe,          \* last request/response of a direct GET /api/wildcards call
  scrollTop,      \* WildcardList: index of the first slot the virtualizer renders
  effDeps,        \* WildcardList: dependency values at the last run of the loadMore effect
  previews,       \* the wildcard_previews table: by record id, the urls of its
                  \* rows in created_at order (oldest first)
  defaultUrl,     \* the preview_url column of wildcards, by record id (NoUrl = NULL)
  patchCalls,     \* set-default (PATCH previewUrl) calls not yet handled by the server
  card            \* one WildcardCard instance: its item prop, refs and timer

cache == <<items, dbFetched, serverTotal, isLoadingMore, isInitialLoad,
           nextCursorRef, isFetchingRef, activeQueryRef>>
\* The scroll state of the WildcardList component.
sched == <<scrollTop, effDeps>>
\* The preview links of the records.
pv == <<previews, defaultUrl, patchCalls, card>>
vars == <<store, nextId, pending, items, dbFetched, serverTotal, isLoadingMore,
          isInitialLoad, nextCursorRef, isFetchingRef, activeQueryRef, inflight,
          pages, newest, lastOp, probe, scrollTop, effDeps, previews, defaultUrl,
          patchCalls, card>>

\* ---------------------------------------------------------------- helpers
Min(a, b) == IF a < b THEN a ELSE b
Max(a, b) == IF a > b THEN a ELSE b

SetMax(S) == CHOOSE m \in S : \A x \in S : x <= m

RemoveAt(s, i) == [k \in 1..(Len(s) - 1) |-> IF k < i THEN s[k] ELSE s[k + 1]]

RECURSIVE FilterOutId(_, _)
FilterOutId(s, id) ==
  IF s = <<>> THEN <<>>
  ELSE IF Head(s).id = id THEN FilterOutId(Tail(s), id)
       ELSE <<Head(s)>> \o FilterOutId(Tail(s), id)

IdsOf(s) == [k \in 1..Len(s) |-> s[k].id]

\* ---------------------------------------------------------------- store
\* SQLite LIKE: case-insensitive for ASCII letters.
Lower(c) == IF c = "A" THEN "a" ELSE IF c = "B" THEN "b" ELSE c

\* SQLite LIKE: % matches any run of characters, _ any single character.
RECURSIVE Like(_, _)
Like(t, p) ==
  IF p = <<>> THEN t = <<>>
  ELSE IF Head(p) = "%"
       THEN Like(t, Tail(p)) \/ (t # <<>> /\ Like(Tail(t), p))
       ELSE /\ t # <<>>
            /\ (Head(p) = "_" \/ Lower(Head(t)) = Lower(Head(p)))
            /\ Like(Tail(t), Tail(p))

\* const q = req.query.q ? `%${req.query.q}%` : '%'
LikePattern(q) == IF q = <<>> THEN <<"%">> ELSE <<"%">> \o q \o <<"%">>

\* WHERE list = ? AND text LIKE ?
Matching(s, l, q) == {r \in s : r.list = l /\ Like(r.text, LikePattern(q))}

\* const limit = Math.min(Number(req.query.limit) || 50, MAX_LIMIT); raw 0 is
\* the absent (or zero) parameter.
EffLimit(raw) == Min(IF raw = 0 THEN DEFAULT_LIMIT ELSE raw, MAX_LIMIT)

\* AND rowid < ?   (only when a cursor was sent)
CursorFilterLE(rowid, cursor) == cursor = NoCursor \/ rowid <= cursor
CursorFilter(rowid, cursor) == cursor = NoCursor \/ rowid < cursor

\* ORDER BY rowid DESC LIMIT n
RECURSIVE TakeDesc(_, _)
TakeDescAsc(S, n) ==
  IF n = 0 \/ S = {} THEN <<>>
  ELSE LET m == CHOOSE r \in S : \A x \in S : x.rowid >= r.rowid
       IN <<m>> \o TakeDesc(S \ {m}, n - 1)
TakeDesc(S, n) ==
  IF n = 0 \/ S = {} THEN <<>>
  ELSE LET m == CHOOSE r \in S : \A x \in S : x.rowid <= r.rowid
       IN <<m>> \o TakeDesc(S \ {m}, n - 1)

\* SELECT COUNT(*) ... WHERE list = ? AND text LIKE ?
CountBelowCursor(s, l, q, cursor) ==
  Cardinality({r \in Matching(s, l, q) : CursorFilter(r.rowid, cursor)})
CountTotal(s, l, q, cursor) == Cardinality(Matching(s, l, q))

\* rows.length > 0 ? rows[rows.length - 1].rowid : null
NextCursorFirst(rows) == IF Len(rows) > 0 THEN rows[1].rowid ELSE NoCursor
NextCursorOf(rows) == IF Len(rows) > 0 THEN rows[Len(rows)].rowid ELSE NoCursor

\* GET /api/wildcards: the response body, plus the rowids of the page (which
\* the client never sees).
GetWildcards(s, l, q, cursor, rawLimit) ==
  LET rows == TakeDesc({r \in Matching(s, l, q) : CursorFilter(r.rowid, cursor)},
                       EffLimit(rawLimit))
  IN [items      |-> [k \in 1..Len(rows) |-> [id |-> rows[k].id, text |-> rows[k].text]],
      total      |-> CountTotal(s, l, q, cursor),
      nextCursor |-> NextCursorOf(rows),
      rowids     |-> [k \in 1..Len(rows) |-> rows[k].rowid]]

\* Implicit rowid of a table without AUTOINCREMENT: one more than the largest
\* rowid currently in the table (1 for an empty table).
NewRowidCount(s) == Cardinality(s) + 1
NewRowid(s) == IF s = {} THEN 1 ELSE SetMax({r.rowid : r \in s}) + 1

\* INSERT OR REPLACE INTO wildcards (id, text, list, ...): a row with the same
\* id is replaced by a new row.
InsertOne(s, it) ==
  {r \in s : r.id # it.id}
    \cup {[id |-> it.id, rowid |-> NewRowid(s), list |-> it.list, text |-> it.text]}

\* POST /api/wildcards: items.forEach(stmtWildcard.run) in one transaction.
RECURSIVE InsertBatch(_, _)
InsertBatch(s, batch) ==
  IF batch = <<>> THEN s ELSE InsertBatch(InsertOne(s, Head(batch)), Tail(batch))

\* DELETE /api/wildcards/:id
DeleteOne(s, id) == {r \in s : r.id # id}

\* DELETE /api/wildcards?list=
DeleteAllInList(s, l) == {r \in s : r.list # l}

\* ---------------------------------------------------------------- client
NoResp == [items |-> <<>>, total |-> 0, nextCursor |-> NoCursor, rowids |-> <<>>]

\* The record of an operation.  Its stale field tells whether a page request
\* is out that was issued before the latest reset of the cache (a change of
\* the search query, or clear()).
Op(name, current, replace, applied, n, seen, match) ==
  [op |-> name, current |-> current, replace |-> replace,
   applied |-> applied, n |-> n, newest |-> seen, match |-> match,
   stale |-> IF name \in {"setQuery", "clear"} THEN Len(inflight) > 0
             ELSE IF name \in {"complete", "fail", "malformed", "malformedRenderThrows"}
                  THEN FALSE
                  ELSE lastOp.stale]

\* const hasMore = dbFetched < serverTotal
hasMore == dbFetched < serverTotal

\* if (isFetchingRef.current) return;
FetchPageGuardNone == TRUE
FetchPageGuard == ~isFetchingRef

\* fetchPage up to its await: take the guard and send the request.
FetchPage(q, cursor, replace) ==
  IF FetchPageGuard
  THEN /\ isFetchingRef' = TRUE
       /\ isLoadingMore' = TRUE
       /\ inflight' = Append(inflight, [q |-> q, cursor |-> cursor, replace |-> replace,
                                        phase |-> "sent", resp |-> NoResp,
                                        seen0 |-> newest, seen |-> 0, match |-> FALSE])
  ELSE UNCHANGED <<isFetchingRef, isLoadingMore, inflight>>

\* The search-query effect: runs when the searchQuery prop changes.
SetQuery(q) ==
  /\ q # activeQueryRef
  /\ Len(inflight) < MaxInflight
  /\ activeQueryRef' = q
  /\ nextCursorRef' = NoCursor
  /\ isInitialLoad' = TRUE
  /\ items' = <<>>
  /\ dbFetched' = 0
  /\ serverTotal' = 0
  /\ FetchPage(q, NoCursor, TRUE)
  /\ pages' = <<>>
  /\ lastOp' = Op("setQuery", TRUE, TRUE, FALSE, 0, 0, FALSE)
  /\ UNCHANGED <<store, nextId, pending, newest, probe, sched, pv>>

\* if (!isFetchingRef.current && hasMore)
LoadMoreGuardNoTotal == ~isFetchingRef
LoadMoreGuard == ~isFetchingRef /\ hasMore

\* loadMore, when it gets past its own test (otherwise it does nothing).
LoadMore ==
  /\ LoadMoreGuard
  /\ Len(inflight) < MaxInflight
  /\ Len(pages) < MaxPages
  /\ FetchPage(activeQueryRef, nextCursorRef, FALSE)
  /\ lastOp' = Op("loadMore", TRUE, FALSE, FALSE, 0, 0, FALSE)
  /\ UNCHANGED <<store, nextId, pending, items, dbFetched, serverTotal, isInitialLoad,
                 nextCursorRef, activeQueryRef, pages, newest, probe, sched, pv>>

\* The server handles a page request: the response is computed from the table
\* as it is at that moment.
ServerHandle(i) ==
  LET r == inflight[i]
      resp == GetWildcards(store, list, r.q, r.cursor, PAGE_SIZE)
      match == \E x \in store : x.id = newest /\ Like(x.text, LikePattern(r.q))
  IN /\ r.phase = "sent"
     /\ inflight' = [inflight EXCEPT ![i] = [r EXCEPT !.phase = "answered",
                                                     !.resp = resp,
                                                     !.seen = newest,
                                                     !.match = match]]
     /\ lastOp' = Op("handle", r.q = activeQueryRef, r.replace, FALSE, Len(resp.items),
                     0, FALSE)
     /\ UNCHANGED <<store, nextId, pending, cache, pages, newest, probe, sched, pv>>

\* if (activeQueryRef.current !== q) return;
EpochOkAlways(q) == TRUE
EpochOk(q) == activeQueryRef = q

\* fetchPage after its await, when the request resolved: apply or discard the
\* response, then the finally block.
Complete(i) ==
  LET r == inflight[i]
      applied == EpochOk(r.q)
  IN /\ r.phase = "answered"
     /\ IF applied
        THEN /\ nextCursorRef' = r.resp.nextCursor
             /\ serverTotal' = r.resp.total
             /\ IF r.replace
                THEN /\ items' = r.resp.items
                     /\ dbFetched' = Len(r.resp.items)
                     /\ isInitialLoad' = FALSE
                ELSE /\ items' = items \o r.resp.items
                     /\ dbFetched' = dbFetched + Len(r.resp.items)
                     /\ UNCHANGED isInitialLoad
             /\ pages' = Append(pages, [ids |-> IdsOf(r.resp.items),
                                        rowids |-> r.resp.rowids])
        ELSE UNCHANGED <<nextCursorRef, serverTotal, items, dbFetched, isInitialLoad,
                         pages>>
     /\ isFetchingRef' = FALSE
     /\ isLoadingMore' = FALSE
     /\ inflight' = RemoveAt(inflight, i)
     /\ lastOp' = Op("complete", r.q = activeQueryRef, r.replace, applied,
                     Len(r.resp.items), IF r.seen0 = r.seen THEN r.seen ELSE 0, r.match)
     /\ UNCHANGED <<store, nextId, pending, activeQueryRef, newest, probe, sched, pv>>

\* fetchPage after its await, when the request rejected: catch, then finally.
\* catch { setIsInitialLoad(false) } finally { isFetchingRef.current = false;
\* setIsLoadingMore(false) }
CatchFinallyReset ==
  /\ isInitialLoad' = FALSE
  /\ isFetchingRef' = FALSE
  /\ isLoadingMore' = FALSE
  /\ items' = <<>>
  /\ dbFetched' = 0
  /\ UNCHANGED <<serverTotal, nextCursorRef>>
CatchFinally ==
  /\ isInitialLoad' = FALSE
  /\ isFetchingRef' = FALSE
  /\ isLoadingMore' = FALSE
  /\ UNCHANGED <<items, dbFetched, serverTotal, nextCursorRef>>

Fail(i) ==
  LET r == inflight[i]
  IN /\ CatchFinally
     /\ inflight' = RemoveAt(inflight, i)
     /\ lastOp' = Op("fail", r.q = activeQueryRef, r.replace, FALSE, 0, 0, FALSE)
     /\ UNCHANGED <<store, nextId, pending, activeQueryRef, pages, newest, probe,
                    sched, pv>>

\* A persistence call as sent by dbApi: add, remove or clearList.
Call(name, batch, id) == [op |-> name, batch |-> batch, id |-> id]

\* prepend(newItems)
PrependCacheAppend(newItems) ==
  /\ items' = items \o newItems
  /\ serverTotal' = serverTotal + Len(newItems)
  /\ dbFetched' = dbFetched + Len(newItems)
PrependCache(newItems) ==
  /\ items' = newItems \o items
  /\ serverTotal' = serverTotal + Len(newItems)
  /\ dbFetched' = dbFetched + Len(newItems)

\* New records arrive (a generated batch or a saved copy): prepend them and
\* send them to the store without waiting.
Prepend(texts) ==
  LET n == Len(texts)
      newItems == [k \in 1..n |-> [id |-> nextId + k - 1, text |-> texts[k]]]
      batch == [k \in 1..n |-> [id |-> nextId + k - 1, text |-> texts[k], list |-> list]]
  IN /\ nextId + n - 1 <= MaxId
     /\ Cardinality(pending) < MaxPending
     /\ PrependCache(newItems)
     /\ nextId' = nextId + n
     /\ pending' = pending \cup {Call("add", batch, 0)}
     /\ lastOp' = Op("prepend", TRUE, FALSE, FALSE, n, 0, FALSE)
     /\ UNCHANGED <<store, isLoadingMore, isInitialLoad, nextCursorRef, isFetchingRef,
                    activeQueryRef, inflight, pages, newest, probe, sched, pv>>

\* remove(id)
RemoveCacheTotalOnly(id) ==
  /\ items' = FilterOutId(items, id)
  /\ serverTotal' = Max(0, serverTotal - 1)
  /\ UNCHANGED dbFetched
RemoveCache(id) ==
  /\ items' = FilterOutId(items, id)
  /\ serverTotal' = Max(0, serverTotal - 1)
  /\ dbFetched' = Max(0, dbFetched - 1)

\* A card's remove button: remove the cached item and delete it in the store
\* without waiting.
Remove(id) ==
  /\ \E k \in 1..Len(items) : items[k].id = id
  /\ Cardinality(pending) < MaxPending
  /\ RemoveCache(id)
  /\ pending' = pending \cup {Call("del", <<>>, id)}
  /\ lastOp' = Op("remove", TRUE, FALSE, FALSE, 1, 0, FALSE)
  /\ UNCHANGED <<store, nextId, isLoadingMore, isInitialLoad, nextCursorRef,
                 isFetchingRef, activeQueryRef, inflight, pages, newest,
                 probe, sched, pv>>

\* clear()
ClearCacheKeepCursor ==
  /\ items' = <<>>
  /\ serverTotal' = 0
  /\ dbFetched' = 0
  /\ UNCHANGED nextCursorRef
ClearCache ==
  /\ items' = <<>>
  /\ serverTotal' = 0
  /\ dbFetched' = 0
  /\ nextCursorRef' = NoCursor

\* clear(), with the clearList call of its caller.
Clear ==
  /\ items # <<>> \/ serverTotal # 0
  /\ Cardinality(pending) < MaxPending
  /\ ClearCache
  /\ pending' = pending \cup {Call("clear", <<>>, 0)}
  /\ lastOp' = Op("clear", TRUE, FALSE, FALSE, 0, 0, FALSE)
  /\ UNCHANGED <<store, nextId, isLoadingMore, isInitialLoad, isFetchingRef,
                 activeQueryRef, inflight, pages, newest, probe, sched, pv>>

\* The server handles a persistence call.
ApplyCall(s, c) ==
  IF c.op = "add" THEN InsertBatch(s, c.batch)
  ELSE IF c.op = "del" THEN DeleteOne(s, c.id)
  ELSE DeleteAllInList(s, list)

NewestAfter(c) ==
  IF c.op = "add" THEN c.batch[Len(c.batch)].id
  ELSE IF c.op = "del" THEN (IF c.id = newest THEN 0 ELSE newest)
  ELSE 0

PersistArrive(c) ==
  /\ c \in pending
  /\ store' = ApplyCall(store, c)
  /\ pending' = pending \ {c}
  /\ newest' = NewestAfter(c)
  /\ lastOp' = Op("persist", TRUE, FALSE, FALSE, 0, 0, FALSE)
  /\ UNCHANGED <<nextId, cache, inflight, pages, probe, sched, pv>>

\* The hook instance of the other list persists a new record of its own.
OtherInsert(t) ==
  /\ nextId <= MaxId
  /\ store' = InsertBatch(store, <<[id |-> nextId, text |-> t, list |-> "saved"]>>)
  /\ nextId' = nextId + 1
  /\ lastOp' = Op("otherInsert", TRUE, FALSE, FALSE, 0, 0, FALSE)
  /\ UNCHANGED <<pending, cache, inflight, pages, newest, probe, sched, pv>>

\* The hook instance of the other list deletes one of its records.
OtherDelete(id) ==
  /\ \E r \in store : r.id = id /\ r.list = "saved"
  /\ store' = DeleteOne(store, id)
  /\ lastOp' = Op("otherDelete", TRUE, FALSE, FALSE, 0, 0, FALSE)
  /\ UNCHANGED <<nextId, pending, cache, inflight, pages, newest, probe, sched, pv>>

\* ---------------------------------------------------------------- list view
\* const count = hasMore ? safeItems.length + 1 : safeItems.length
SlotCount == IF hasMore THEN Len(items) + 1 ELSE Len(items)

\* The first rendered slot: the scroll offset never exceeds the content.
FirstSlot == Min(scrollTop, Max(0, SlotCount - VIEW_SLOTS))

\* virtualItems[virtualItems.length - 1].index; -1 when nothing is rendered.
LastIndex == Min(SlotCount, FirstSlot + VIEW_SLOTS) - 1

\* [virtualItems, hasMore, isLoadingMore, safeItems.length, onLoadMore]
EffectDepsWindowOnly == <<FirstSlot, LastIndex, FALSE, FALSE, 0>>
EffectDeps == <<FirstSlot, LastIndex, hasMore, isLoadingMore, Len(items)>>

\* ---------------------------------------------------------------- card
\* One WildcardCard instance.  urls and def are previewUrls and previewUrl of
\* its item prop, idx is previewIndexRef (and the previewIndex state), timer
\* the ticks left on defaultTimerRef (0: no timer).  History: since counts the
\* ticks since the last step, unsaved tells that a step was made that no
\* set-default call has followed, calls and sent are the number of
\* set-default calls and the url of the last one, op and dir the last event.
UndefinedUrl == "undefined"

\* The values the previewUrls of an item can take.
LinkLists ==
  ({<<>>} \cup {<<u>> : u \in Urls} \cup {<<u, v>> : u, v \in Urls})
    \ {<<u, u>> : u \in Urls}

\* previewUrls.indexOf(u)
IndexOf(urls, u) ==
  IF \E k \in 1..Len(urls) : urls[k] = u
  THEN (CHOOSE k \in 1..Len(urls) : urls[k] = u /\ \A j \in 1..(k - 1) : urls[j] # u) - 1
  ELSE -1

\* item.previewUrl ? Math.max(0, previewUrls.indexOf(item.previewUrl)) : 0
DefaultIndex(urls, def) == IF def # NoUrl THEN Max(0, IndexOf(urls, def)) ELSE 0

\* previewUrlsRef.current[previewIndexRef.current]
UrlAt(urls, idx) == IF idx < Len(urls) THEN urls[idx + 1] ELSE UndefinedUrl

CardInit ==
  [urls |-> <<>>, def |-> NoUrl, idx |-> 0, timer |-> 0, mounted |-> TRUE,
   since |-> 0, unsaved |-> FALSE, calls |-> 0, sent |-> NoUrl, op |-> "mount", dir |-> 0]

\* The effect on [previewUrls.length]: reset, jump to an added link, or clamp.
LengthEffect(idx, prev, len) ==
  IF len = prev THEN idx
  ELSE IF len = 0 THEN 0
  ELSE IF len > prev THEN len - 1
  ELSE IF idx >= len THEN len - 1
  ELSE idx

\* The effect on [item.previewUrl]: follow the persisted default.
DefaultEffect(idx, urls, prevDef, def) ==
  IF def = prevDef \/ def = NoUrl THEN idx
  ELSE IF IndexOf(urls, def) # -1 /\ IndexOf(urls, def) # idx THEN IndexOf(urls, def)
  ELSE idx

\* The card is rendered with another item prop: the links of its record
\* changed, or the slot now shows another record.
ItemChange(urls, def) ==
  /\ card.mounted
  /\ <<urls, def>> # <<card.urls, card.def>>
  /\ def = NoUrl \/ IndexOf(urls, def) # -1
  /\ card' = [card EXCEPT
        !.urls = urls,
        !.def = def,
        !.idx = DefaultEffect(LengthEffect(card.idx, Len(card.urls), Len(urls)),
                              urls, card.def, def),
        !.op = "item"]
  /\ UNCHANGED <<store, nextId, pending, cache, inflight, pages, newest, lastOp, probe,
                 sched, previews, defaultUrl, patchCalls>>

\* The wheel handler, up to the timer it starts.
Wheel(dir) ==
  IF Len(card.urls) <= 1
  THEN card' = [card EXCEPT !.op = "wheelIgnored", !.dir = dir]
  ELSE card' = [card EXCEPT
         !.idx = (card.idx + dir + Len(card.urls)) % Len(card.urls),
         !.timer = DEBOUNCE,
         !.since = 0,
         !.unsaved = TRUE,
         !.op = "step",
         !.dir = dir]

Step(dir) ==
  /\ card.mounted
  /\ card.calls < MaxCalls
  /\ card.op = "wheelIgnored" => card.dir # dir
  /\ Wheel(dir)
  /\ UNCHANGED <<store, nextId, pending, cache, inflight, pages, newest, lastOp, probe,
                 sched, previews, defaultUrl, patchCalls>>

\* One tick of the clock; the timer callback runs when its time is up:
\* onSetDefaultPreviewRef.current(previewUrlsRef.current[previewIndexRef.current])
Tick ==
  /\ card.since <= DEBOUNCE
  /\ card' = [card EXCEPT
        !.since = Min(card.since + 1, DEBOUNCE + 1),
        !.timer = Max(0, card.timer - 1),
        !.unsaved = IF card.timer = 1 THEN FALSE ELSE card.unsaved,
        !.calls = IF card.timer = 1 THEN card.calls + 1 ELSE card.calls,
        !.sent = IF card.timer = 1 THEN UrlAt(card.urls, card.idx) ELSE card.sent,
        !.op = IF card.timer = 1 THEN "fire" ELSE "tick"]
  /\ UNCHANGED <<store, nextId, pending, cache, inflight, pages, newest, lastOp, probe,
                 sched, previews, defaultUrl, patchCalls>>

\* The card leaves the rendered window: the cleanup clears the timer.
Unmount ==
  /\ card.mounted
  /\ card' = [card EXCEPT !.mounted = FALSE, !.timer = 0, !.op = "unmount"]
  /\ UNCHANGED <<store, nextId, pending, cache, inflight, pages, newest, lastOp, probe,
                 sched, previews, defaultUrl, patchCalls>>

\* A card is mounted for an item: a new instance, no step made yet.
Mount(urls, def) ==
  /\ ~card.mounted
  /\ def = NoUrl \/ IndexOf(urls, def) # -1
  /\ card' = [card EXCEPT !.urls = urls, !.def = def, !.idx = DefaultIndex(urls, def),
                           !.mounted = TRUE, !.unsaved = FALSE, !.since = 0,
                           !.op = "mount"]
  /\ UNCHANGED <<store, nextId, pending, cache, inflight, pages, newest, lastOp, probe,
                 sched, previews, defaultUrl, patchCalls>>

NextCard ==
  \/ \E urls \in LinkLists, def \in Urls \cup {NoUrl} : ItemChange(urls, def)
  \/ \E dir \in {-1, 1} : Step(dir)
  \/ Tick
  \/ Unmount
  \/ \E urls \in LinkLists, def \in Urls \cup {NoUrl} : Mount(urls, def)

\* ---------------------------------------------------------------- behaviours
NoProbe == [l |-> list, q |-> <<>>, cursor |-> NoCursor, limit |-> 0, resp |-> NoResp,
            asked |-> FALSE]

\* The table at start-up: rows 1..InitRows of the managed list, texts alternating.
InitText(j) == IF j % 2 = 1 THEN <<"a">> ELSE <<"b">>
InitStore ==
  \E k \in {InitRows} :
    /\ store = {[id |-> j, rowid |-> j, list |-> list, text |-> InitText(j)] : j \in 1..k}
    /\ nextId = k + 1

\* The state after mount: the search-query effect has run for the initial
\* (empty) query and its first-page request is out.
InitClient ==
  /\ pending = {}
  /\ items = <<>>
  /\ dbFetched = 0
  /\ serverTotal = 0
  /\ isLoadingMore = TRUE
  /\ isInitialLoad = TRUE
  /\ nextCursorRef = NoCursor
  /\ isFetchingRef = TRUE
  /\ activeQueryRef = <<>>
  /\ inflight = <<[q |-> <<>>, cursor |-> NoCursor, replace |-> TRUE, phase |-> "sent",
                   resp |-> NoResp, seen0 |-> 0, seen |-> 0, match |-> FALSE]>>
  /\ pages = <<>>
  /\ newest = 0
  /\ lastOp = [op |-> "mount", current |-> TRUE, replace |-> TRUE, applied |-> FALSE,
               n |-> 0, newest |-> 0, match |-> FALSE, stale |-> FALSE]
  /\ probe = NoProbe
  /\ scrollTop = 0
  /\ effDeps = EffectDeps
  /\ previews = [id \in 1..MaxId |-> <<>>]
  /\ defaultUrl = [id \in 1..MaxId |-> NoUrl]
  /\ patchCalls = {}
  /\ card = CardInit

Init == InitStore /\ InitClient

Next ==
  \/ \E q \in Queries : SetQuery(q)
  \/ LoadMore
  \/ \E i \in 1..Len(inflight) : ServerHandle(i)
  \/ \E i \in 1..Len(inflight) : Complete(i)
  \/ \E i \in 1..Len(inflight) : Fail(i)
  \/ \E t \in Texts : Prepend(<<t>>)
  \/ \E id \in 1..MaxId : Remove(id)
  \/ Clear
  \/ \E c \in pending : PersistArrive(c)
  \/ OtherInsert(<<"a">>)
  \/ \E id \in 1..MaxId : OtherDelete(id)

Spec == Init /\ [][Next]_vars

\* The same hook while the search text is left alone.
NextScroll ==
  \/ LoadMore
  \/ \E i \in 1..Len(inflight) : ServerHandle(i)
  \/ \E i \in 1..Len(inflight) : Complete(i)
  \/ \E i \in 1..Len(inflight) : Fail(i)
  \/ \E t \in Texts : Prepend(<<t>>)
  \/ \E id \in 1..MaxId : Remove(id)
  \/ Clear
  \/ \E c \in pending : PersistArrive(c)
  \/ OtherInsert(<<"a">>)
  \/ \E id \in 1..MaxId : OtherDelete(id)

SpecScroll == Init /\ [][NextScroll]_vars

\* ------------------------------------------------- one query change
\* The hook while the user works on the initial query and then changes the
\* search text once; after that nothing is done by the user.  Every request
\* is answered and resolves, and every persistence call reaches the server.
FirstQuery == activeQueryRef = <<>>

NextSettle ==
  \/ FirstQuery /\ \E q \in Queries : SetQuery(q)
  \/ LoadMore
  \/ \E i \in 1..Len(inflight) : ServerHandle(i)
  \/ \E i \in 1..Len(inflight) : Complete(i)
  \/ FirstQuery /\ \E t \in Texts : Prepend(<<t>>)
  \/ FirstQuery /\ \E id \in 1..MaxId : Remove(id)
  \/ \E c \in pending : PersistArrive(c)

SpecSettle ==
  /\ Init /\ [][NextSettle]_vars
  /\ WF_vars(\E i \in 1..Len(inflight) : ServerHandle(i))
  /\ WF_vars(\E i \in 1..Len(inflight) : Complete(i))
  /\ WF_vars(\E c \in pending : PersistArrive(c))

\* ------------------------------------------------- a single client
\* The hook with a single client whose requests all resolve: query changes,
\* loadMore, prepend and remove, with the persistence calls reaching the
\* server at any time relative to the page queries.
NextConv ==
  \/ \E q \in Queries : SetQuery(q)
  \/ LoadMore
  \/ \E i \in 1..Len(inflight) : ServerHandle(i)
  \/ \E i \in 1..Len(inflight) : Complete(i)
  \/ \E t \in Texts : Prepend(<<t>>)
  \/ \E id \in 1..MaxId : Remove(id)
  \/ \E c \in pending : PersistArrive(c)

SpecConv == Init /\ [][NextConv]_vars

\* One card on its own.
SpecCard == Init /\ [][NextCard]_vars

\* ------------------------------------------------- deletion between pages
\* The same hook when records are only deleted, each deletion made while no
\* page request is out and handled by the server before the next page query.
DelSetQuery(q) == inflight = <<>> /\ SetQuery(q)
DelRemove(id) == inflight = <<>> /\ Remove(id)
DelHandle(i) == pending = {} /\ ServerHandle(i)

NextDel ==
  \/ \E q \in Queries : DelSetQuery(q)
  \/ LoadMore
  \/ \E i \in 1..Len(inflight) : DelHandle(i)
  \/ \E i \in 1..Len(inflight) : Complete(i)
  \/ \E id \in 1..MaxId : DelRemove(id)
  \/ \E c \in pending : PersistArrive(c)

SpecDel == Init /\ [][NextDel]_vars

\* ------------------------------------------------- the operations of the hook
\* The hook driven by a caller that may call loadMore in any state; the search
\* text changes while no page request is out, and each persistence call
\* reaches the server before the caller's next prepend, remove or clear.
\* { ...w, ...patch }
Merge(w, patch) ==
  [f \in DOMAIN w \cup DOMAIN patch |-> IF f \in DOMAIN patch THEN patch[f] ELSE w[f]]

\* Patches of the text field.
Patches == {[text |-> t] : t \in Texts}

\* update(id, patch): prev.map((w) => (w.id === id ? { ...w, ...patch } : w))
UpdateCacheAll(id, patch) ==
  items' = [k \in 1..Len(items) |-> Merge(items[k], patch)]
UpdateCache(id, patch) ==
  items' = [k \in 1..Len(items) |->
              IF items[k].id = id THEN Merge(items[k], patch) ELSE items[k]]

Update(id, patch) ==
  /\ UpdateCache(id, patch)
  /\ lastOp' = Op("update", TRUE, FALSE, FALSE, 0, 0, FALSE)
  /\ UNCHANGED <<store, nextId, pending, dbFetched, serverTotal, isLoadingMore,
                 isInitialLoad, nextCursorRef, isFetchingRef, activeQueryRef, inflight,
                 pages, newest, probe, sched, pv>>

\* loadMore(): the whole callback.
LoadMoreBody ==
  IF LoadMoreGuard
  THEN FetchPage(activeQueryRef, nextCursorRef, FALSE)
  ELSE UNCHANGED <<isFetchingRef, isLoadingMore, inflight>>

\* loadMore() called by the owner of the hook, in any state.
LoadMoreCall ==
  /\ LoadMoreGuard => (Len(pages) < MaxPages /\ Len(inflight) < MaxInflight)
  /\ LoadMoreBody
  /\ lastOp' = Op("loadMoreCall", TRUE, FALSE, FALSE, 0, 0, FALSE)
  /\ UNCHANGED <<store, nextId, pending, items, dbFetched, serverTotal, isInitialLoad,
                 nextCursorRef, activeQueryRef, pages, newest, probe, sched, pv>>

OpsPrepend(texts) == pending = {} /\ Prepend(texts)
OpsRemove(id) == pending = {} /\ Remove(id)
OpsClear == pending = {} /\ Clear

\* Batches handed to prepend: one record, or two.
Batches == {<<t>> : t \in Texts} \cup {<<"a">>, <<"b">>} \X {<<"a">>}

InitStoreOps ==
  \E k \in (InitRows - 1)..InitRows :
    /\ store = {[id |-> j, rowid |-> j, list |-> list, text |-> InitText(j)] : j \in 1..k}
    /\ nextId = k + 1

InitOps == InitStoreOps /\ InitClient

NextOps ==
  \/ \E q \in Queries : DelSetQuery(q)
  \/ LoadMoreCall
  \/ \E i \in 1..Len(inflight) : ServerHandle(i)
  \/ \E i \in 1..Len(inflight) : Complete(i)
  \/ \E i \in 1..Len(inflight) : Fail(i)
  \/ \E b \in Batches : OpsPrepend(b)
  \/ \E id \in 1..MaxId : OpsRemove(id)
  \/ OpsClear
  \/ \E c \in pending : PersistArrive(c)

SpecOps == InitOps /\ [][NextOps]_vars

\* Cached records edited while pages are loaded and records deleted.
NextEdit ==
  \/ NextDel
  \/ \E id \in 1..MaxId, patch \in Patches : Update(id, patch)

SpecEdit == Init /\ [][NextEdit]_vars

\* ------------------------------------------------- the list view
\* The hook under the WildcardList component: loadMore is called by the
\* component's effect only, which runs after every render that changed one of
\* its dependencies and before the next event is handled.
\* if (!hasMore || isLoadingMore) return; ... if (!last) return;
\* if (last.index >= safeItems.length - 5) onLoadMore();
LoadMoreCondNoThreshold ==
  /\ hasMore /\ ~isLoadingMore
  /\ LastIndex >= 0
LoadMoreCond ==
  /\ hasMore /\ ~isLoadingMore
  /\ LastIndex >= 0
  /\ LastIndex >= Len(items) - TRAIL

EffectDue == effDeps # EffectDeps

LoadMoreEffect ==
  /\ EffectDue
  /\ LoadMoreCond => (Len(pages) < MaxPages /\ Len(inflight) < MaxInflight)
  /\ IF LoadMoreCond
     THEN LoadMoreBody
     ELSE UNCHANGED <<isFetchingRef, isLoadingMore, inflight>>
  /\ effDeps' = EffectDeps
  /\ scrollTop' = FirstSlot
  /\ lastOp' = Op("effect", TRUE, FALSE, LoadMoreCond, 0, 0, FALSE)
  /\ UNCHANGED <<store, nextId, pending, items, dbFetched, serverTotal, isInitialLoad,
                 nextCursorRef, activeQueryRef, pages, newest, probe, pv>>

\* The user scrolls the list to another position.
Scroll(k) ==
  /\ k \in 0..Max(0, SlotCount - VIEW_SLOTS)
  /\ k # FirstSlot
  /\ scrollTop' = k
  /\ lastOp' = Op("scroll", TRUE, FALSE, FALSE, 0, 0, FALSE)
  /\ UNCHANGED <<store, nextId, pending, cache, inflight, pages, newest, probe,
                 effDeps, pv>>

NextSched ==
  \/ LoadMoreEffect
  \/ ~EffectDue /\ \E k \in 0..(MaxId + 1) : Scroll(k)
  \/ ~EffectDue /\ \E q \in Queries : SetQuery(q)
  \/ ~EffectDue /\ \E i \in 1..Len(inflight) : ServerHandle(i)
  \/ ~EffectDue /\ \E i \in 1..Len(inflight) : Complete(i)
  \/ ~EffectDue /\ \E i \in 1..Len(inflight) : Fail(i)
  \/ ~EffectDue /\ \E t \in Texts : Prepend(<<t>>)
  \/ ~EffectDue /\ \E id \in 1..MaxId : Remove(id)
  \/ ~EffectDue /\ Clear
  \/ ~EffectDue /\ \E c \in pending : PersistArrive(c)

SpecSched == Init /\ [][NextSched]_vars

\* The list view while the user never scrolls.  React runs a pending effect
\* after the render that changed its dependencies: the effect is weakly fair.
NextSparse ==
  \/ LoadMoreEffect
  \/ ~EffectDue /\ \E q \in Queries : SetQuery(q)
  \/ ~EffectDue /\ \E i \in 1..Len(inflight) : ServerHandle(i)
  \/ ~EffectDue /\ \E i \in 1..Len(inflight) : Complete(i)
  \/ ~EffectDue /\ \E i \in 1..Len(inflight) : Fail(i)
  \/ ~EffectDue /\ \E t \in Texts : Prepend(<<t>>)
  \/ ~EffectDue /\ \E id \in 1..MaxId : Remove(id)
  \/ ~EffectDue /\ Clear
  \/ ~EffectDue /\ \E c \in pending : PersistArrive(c)

SpecSparse == Init /\ [][NextSparse]_vars /\ WF_vars(LoadMoreEffect)

\* ------------------------------------------------- the rendered slots
\* {isInitialLoad && isLoadingMore ? spinner : virtualItems.map(...)}
RenderedSlots == IF isInitialLoad /\ isLoadingMore THEN {} ELSE FirstSlot..LastIndex

\* const isLoaderRow = vRow.index >= safeItems.length
IsLoaderRowBeyond(idx) == idx > Len(items)
IsLoaderRow(idx) == idx >= Len(items)

\* safeItems[vRow.index]: undefined past the end of the array (written as a
\* marker record).
UndefinedItem == [id |-> 0, text |-> <<"undefined">>]
ItemAt(idx) == IF idx < Len(items) THEN items[idx + 1] ELSE UndefinedItem

\* A card is rendered in slot idx.
CardAt(idx) == idx \in RenderedSlots /\ ~IsLoaderRow(idx)

\* onRemove={() => onRemove(safeItems[vRow.index].id)}: the remove button of
\* the card in slot idx.  Reading .id of undefined throws before remove runs.
CardRemove(idx) ==
  /\ CardAt(idx)
  /\ IF ItemAt(idx) = UndefinedItem
     THEN UNCHANGED <<items, serverTotal, dbFetched, pending>>
     ELSE /\ Cardinality(pending) < MaxPending
          /\ RemoveCache(ItemAt(idx).id)
          /\ pending' = pending \cup {Call("del", <<>>, ItemAt(idx).id)}
  /\ lastOp' = Op("cardRemove", TRUE, FALSE, FALSE, idx, ItemAt(idx).id, FALSE)
  /\ UNCHANGED <<store, nextId, isLoadingMore, isInitialLoad, nextCursorRef,
                 isFetchingRef, activeQueryRef, inflight, pages, newest,
                 probe, sched, pv>>

\* onCopy, onSave, onRefine, onAddPreview, onRemovePreview and
\* onSetDefaultPreview of the card in slot idx: they read safeItems[vRow.index]
\* and leave the list cache alone.
CardAction(idx) ==
  /\ CardAt(idx)
  /\ lastOp.op # "cardAction"
  /\ lastOp' = Op("cardAction", TRUE, FALSE, FALSE, idx, ItemAt(idx).id, FALSE)
  /\ UNCHANGED <<store, nextId, pending, cache, inflight, pages, newest, probe,
                 sched, pv>>

NextView ==
  \/ LoadMoreEffect
  \/ ~EffectDue /\ \E k \in 0..(MaxId + 1) : Scroll(k)
  \/ ~EffectDue /\ \E q \in Queries : DelSetQuery(q)
  \/ ~EffectDue /\ \E i \in 1..Len(inflight) : ServerHandle(i)
  \/ ~EffectDue /\ \E i \in 1..Len(inflight) : Complete(i)
  \/ ~EffectDue /\ \E t \in Texts : Prepend(<<t>>)
  \/ ~EffectDue /\ \E idx \in 0..(MaxId + 1) : CardRemove(idx)
  \/ ~EffectDue /\ \E idx \in 0..(MaxId + 1) : CardAction(idx)
  \/ ~EffectDue /\ \E c \in pending : PersistArrive(c)

SpecView == Init /\ [][NextView]_vars

\* ------------------------------------------------- malformed page response
\* The value undefined in a number-valued state, and in items (written as a
\* list holding one marker record).
Undefined == -1
UndefinedItems == <<[id |-> 0, text |-> <<"undefined">>]>>

\* fetchPage after its await, when the request resolved with a JSON body that
\* has no items, total and nextCursor (such as { error: ... }).  A stale
\* response is discarded as usual.  Otherwise undefined is stored as cursor
\* and total; with replace, setItems(undefined) runs and result.items.length
\* then throws inside the try (catch, finally); without replace, two updater
\* functions are queued that throw when the next render evaluates them.
CompleteMalformed(i) ==
  LET r == inflight[i]
      applied == EpochOk(r.q)
  IN /\ IF applied
        THEN /\ nextCursorRef' = Undefined
             /\ serverTotal' = Undefined
             /\ IF r.replace
                THEN /\ items' = UndefinedItems
                     /\ isInitialLoad' = FALSE
                     /\ lastOp' = Op("malformed", TRUE, TRUE, TRUE, 0, 0, FALSE)
                ELSE /\ UNCHANGED <<items, isInitialLoad>>
                     /\ lastOp' = Op("malformedRenderThrows", TRUE, FALSE, TRUE, 0, 0, FALSE)
             /\ UNCHANGED dbFetched
        ELSE /\ UNCHANGED <<nextCursorRef, serverTotal, items, dbFetched, isInitialLoad>>
             /\ lastOp' = Op("malformed", FALSE, r.replace, FALSE, 0, 0, FALSE)
     /\ isFetchingRef' = FALSE
     /\ isLoadingMore' = FALSE
     /\ inflight' = RemoveAt(inflight, i)
     /\ UNCHANGED <<store, nextId, pending, activeQueryRef, pages, newest, probe,
                    sched, pv>>

\* The hook is followed up to the first malformed response that it applies.
MalformedApplied ==
  lastOp.op \in {"malformed", "malformedRenderThrows"} /\ lastOp.applied

NextMalformed ==
  \/ ~MalformedApplied /\ NextDel
  \/ ~MalformedApplied /\ \E i \in 1..Len(inflight) : CompleteMalformed(i)

SpecMalformed == Init /\ [][NextMalformed]_vars

\* ------------------------------------------------- preview links
\* The preview endpoints of the server, called for the records of the table.
\* Add and remove calls are handled as they are sent; a set-default call is
\* sent by a card for one of the links the record has at that moment and
\* reaches the server at any later time.
HasRow(id) == \E r \in store : r.id = id

RECURSIVE WithoutUrl(_, _)
\* DELETE FROM wildcard_previews WHERE wildcard_id = ? AND url = ?
WithoutUrl(urls, u) ==
  IF urls = <<>> THEN <<>>
  ELSE IF Head(urls) = u THEN WithoutUrl(Tail(urls), u)
       ELSE <<Head(urls)>> \o WithoutUrl(Tail(urls), u)

\* SELECT url ... ORDER BY created_at ASC LIMIT 1;  next?.url ?? null
OldestUrl(urls) == IF urls = <<>> THEN NoUrl ELSE Head(urls)

\* POST /api/wildcards/:id/previews
AddPreview(id, u) ==
  /\ HasRow(id)
  /\ Len(previews[id]) < MaxLinks
  /\ previews' = [previews EXCEPT ![id] = Append(@, u)]
  /\ defaultUrl' = [defaultUrl EXCEPT ![id] = IF @ # NoUrl THEN @ ELSE u]
  /\ UNCHANGED <<store, nextId, pending, cache, inflight, pages, newest, lastOp, probe,
                 sched, patchCalls, card>>

\* DELETE /api/wildcards/:id/previews
RemovePreview(id, u) ==
  /\ HasRow(id)
  /\ \E k \in 1..Len(previews[id]) : previews[id][k] = u
  /\ previews' = [previews EXCEPT ![id] = WithoutUrl(@, u)]
  /\ defaultUrl' = [defaultUrl EXCEPT ![id] = OldestUrl(WithoutUrl(previews[id], u))]
  /\ UNCHANGED <<store, nextId, pending, cache, inflight, pages, newest, lastOp, probe,
                 sched, patchCalls, card>>

\* WildcardCard: the debounce timer of the wheel handler fires and the link
\* shown is sent as the new default (a card steps only with two links or more).
SendSetDefault(id, u) ==
  /\ HasRow(id)
  /\ Len(previews[id]) > 1
  /\ \E k \in 1..Len(previews[id]) : previews[id][k] = u
  /\ patchCalls = {}
  /\ patchCalls' = {[id |-> id, url |-> u]}
  /\ UNCHANGED <<store, nextId, pending, cache, inflight, pages, newest, lastOp, probe,
                 sched, previews, defaultUrl, card>>

\* PATCH /api/wildcards/:id with previewUrl in the body
PatchPreviewUrl(c) ==
  /\ c \in patchCalls
  /\ patchCalls' = patchCalls \ {c}
  /\ defaultUrl' = [defaultUrl EXCEPT ![c.id] = IF HasRow(c.id) THEN c.url ELSE @]
  /\ UNCHANGED <<store, nextId, pending, cache, inflight, pages, newest, lastOp, probe,
                 sched, previews, card>>

\* DELETE /api/wildcards/:id: the previews of the record go with it.
DeleteWithPreviews(id) ==
  /\ HasRow(id)
  /\ store' = DeleteOne(store, id)
  /\ previews' = [previews EXCEPT ![id] = <<>>]
  /\ defaultUrl' = [defaultUrl EXCEPT ![id] = NoUrl]
  /\ UNCHANGED <<nextId, pending, cache, inflight, pages, newest, lastOp, probe,
                 sched, patchCalls, card>>

NextPreview ==
  \/ \E id \in 1..MaxId, u \in Urls : AddPreview(id, u)
  \/ \E id \in 1..MaxId, u \in Urls : RemovePreview(id, u)
  \/ \E id \in 1..MaxId, u \in Urls : SendSetDefault(id, u)
  \/ \E c \in patchCalls : PatchPreviewUrl(c)
  \/ \E id \in 1..MaxId : DeleteWithPreviews(id)

SpecPreview == Init /\ [][NextPreview]_vars

\* ------------------------------------------------- the store on its own
\* Any HTTP client of the wildcard endpoints: inserts, deletes and page
\* queries with arbitrary parameters; no hook is attached.  probe holds the
\* latest page query and its response until the next insert or delete.
StoreText(id) == IF id % 3 = 1 THEN <<"a">> ELSE IF id % 3 = 2 THEN <<"A", "b">> ELSE <<"b">>

PostWildcards(l) ==
  /\ nextId <= MaxId
  /\ store' = InsertBatch(store, <<[id |-> nextId, text |-> StoreText(nextId), list |-> l]>>)
  /\ nextId' = nextId + 1
  /\ probe' = NoProbe
  /\ UNCHANGED <<pending, cache, inflight, pages, newest, lastOp, sched, pv>>

DeleteWildcard(id) ==
  /\ \E r \in store : r.id = id
  /\ store' = DeleteOne(store, id)
  /\ probe' = NoProbe
  /\ UNCHANGED <<nextId, pending, cache, inflight, pages, newest, lastOp, sched, pv>>

DeleteList(l) ==
  /\ \E r \in store : r.list = l
  /\ store' = DeleteAllInList(store, l)
  /\ probe' = NoProbe
  /\ UNCHANGED <<nextId, pending, cache, inflight, pages, newest, lastOp, sched, pv>>

ProbeLimits == 0..MaxProbeLimit

QueryWildcards(l, q, cursor, limit) ==
  /\ ~probe.asked
  /\ probe' = [l |-> l, q |-> q, cursor |-> cursor, limit |-> limit,
               resp |-> GetWildcards(store, l, q, cursor, limit), asked |-> TRUE]
  /\ UNCHANGED <<store, nextId, pending, cache, inflight, pages, newest,
                 lastOp, sched, pv>>

InitStoreOnly ==
  /\ store = {}
  /\ nextId = 1
  /\ pending = {}
  /\ items = <<>>
  /\ dbFetched = 0
  /\ serverTotal = 0
  /\ isLoadingMore = FALSE
  /\ isInitialLoad = TRUE
  /\ nextCursorRef = NoCursor
  /\ isFetchingRef = FALSE
  /\ activeQueryRef = <<>>
  /\ inflight = <<>>
  /\ pages = <<>>
  /\ newest = 0
  /\ lastOp = [op |-> "none", current |-> TRUE, replace |-> FALSE, applied |-> FALSE,
               n |-> 0, newest |-> 0, match |-> FALSE, stale |-> FALSE]
  /\ probe = NoProbe
  /\ scrollTop = 0
  /\ effDeps = EffectDeps
  /\ previews = [id \in 1..MaxId |-> <<>>]
  /\ defaultUrl = [id \in 1..MaxId |-> NoUrl]
  /\ patchCalls = {}
  /\ card = CardInit

NextStore ==
  \/ \E l \in Lists : PostWildcards(l)
  \/ \E id \in 1..MaxId : DeleteWildcard(id)
  \/ \E l \in Lists : DeleteList(l)
  \/ \E l \in Lists, q \in StoreQueries, cursor \in 0..(MaxId + 1), limit \in ProbeLimits :
       QueryWildcards(l, q, cursor, limit)

SpecStore == InitStoreOnly /\ [][NextStore]_vars

\* ---------------------------------------------------------------- claims
Idle == inflight = <<>> /\ pending = {}

\* C1 (epoch safety): when a page request completes whose query tag differs
\* from activeQueryRef at that moment, its response is dropped: items,
\* serverTotal, dbFetched and nextCursorRef stay as they were.
C1_EpochSafety ==
  [][(lastOp'.op = "complete" /\ ~lastOp'.current)
       => UNCHANGED <<items, serverTotal, dbFetched, nextCursorRef>>]_vars

\* A non-empty response for the superseded query has completed and the cache
\* is still as the reset for the newer query left it.
C1_Witness ==
  /\ lastOp.op = "complete" /\ ~lastOp.current /\ lastOp.n > 0
  /\ items = <<>> /\ serverTotal = 0 /\ dbFetched = 0 /\ nextCursorRef = NoCursor

\* C2 (setQuery): right after the search-query effect ran for a new query the
\* cache is reset, the initial-load flag is set, and a first-page request
\* (no cursor, replace) tagged with the new query is out.
C2_SetQueryIssuesFetch ==
  lastOp.op = "setQuery" =>
    /\ items = <<>> /\ dbFetched = 0 /\ serverTotal = 0
    /\ nextCursorRef = NoCursor /\ isInitialLoad
    /\ \E i \in 1..Len(inflight) :
         /\ inflight[i].q = activeQueryRef
         /\ inflight[i].cursor = NoCursor
         /\ inflight[i].replace

\* C3 (single flight): at most one page request of the list is outstanding.
C3_SingleFlight == Len(inflight) <= 1

\* A query change arrived while the request for the previous query was still
\* out, and there is still only that one request.
C3_Witness ==
  /\ lastOp.op = "setQuery"
  /\ Len(inflight) = 1
  /\ inflight[1].q # activeQueryRef

\* C4 (cursor monotonicity): among the pages applied while the query stays
\* the same, every rowid of a page is below every rowid of the page before it,
\* and no record id occurs on two pages.
C4_CursorMonotonic ==
  /\ \A k \in 1..(Len(pages) - 1) :
       \A a \in 1..Len(pages[k].rowids), b \in 1..Len(pages[k + 1].rowids) :
         pages[k + 1].rowids[b] < pages[k].rowids[a]
  /\ \A j, k \in 1..Len(pages) :
       j < k => \A a \in 1..Len(pages[j].ids), b \in 1..Len(pages[k].ids) :
                  pages[j].ids[a] # pages[k].ids[b]

\* C5 (optimistic counter consistency): dbFetched is the number of cached
\* items, is not negative and does not exceed serverTotal.
C5_CounterConsistency ==
  /\ dbFetched = Len(items)
  /\ dbFetched >= 0
  /\ dbFetched <= serverTotal

\* C6 (inserts land above every cursor): a row of the managed list that
\* enters the table gets a rowid greater than the cursor the cache holds for
\* its next page and than the cursor of every page request that is out.
C6_InsertAboveCursors ==
  [][\A r \in {x \in store' \ store : x.list = list} :
       /\ nextCursorRef # NoCursor => r.rowid > nextCursorRef
       /\ \A i \in 1..Len(inflight) :
            inflight[i].cursor # NoCursor => r.rowid > inflight[i].cursor]_vars

\* C7 (pagination under deletion): with deletions made between pages, the
\* cached ids are at every quiet moment a prefix of what a fresh full fetch
\* yields for the same query, and all of it once hasMore is false.
\* What a fresh fetch of the whole list yields for query q, without a cursor:
\* every matching row, newest first.
FreshFetch(s, q) ==
  LET rows == TakeDesc(Matching(s, list, q), Cardinality(Matching(s, list, q)))
  IN [k \in 1..Len(rows) |-> rows[k].id]

IsPrefix(a, b) == Len(a) <= Len(b) /\ \A k \in 1..Len(a) : a[k] = b[k]

C7_DeletionBetweenPages ==
  (Idle /\ Len(pages) >= 1) =>
    LET fresh == FreshFetch(store, activeQueryRef)
    IN /\ IsPrefix(IdsOf(items), fresh)
       /\ ~hasMore => IdsOf(items) = fresh

\* The record the cursor points at was deleted after page 1, a further
\* non-empty page was loaded with that cursor, and the walk is complete.
C7_Witness ==
  /\ Idle /\ ~hasMore
  /\ Len(pages) = 2
  /\ Len(pages[1].rowids) = PAGE_SIZE
  /\ \A r \in store : r.rowid # pages[1].rowids[PAGE_SIZE]
  /\ Len(pages[2].ids) >= 1
  /\ IdsOf(items) = FreshFetch(store, activeQueryRef)

\* C8 as stated (round trip): when the first page fetched after a query change
\* is applied, and the most recently prepended record was in the table both
\* when the request was sent and when it was handled, that record is the
\* first cached item.
C8_RoundTripAnyQuery ==
  (lastOp.op = "complete" /\ lastOp.applied /\ lastOp.replace /\ lastOp.newest # 0)
    => (items # <<>> /\ items[1].id = lastOp.newest)

\* C8 as amended: the same, for a record whose text matches the new query.
C8_RoundTrip ==
  (lastOp.op = "complete" /\ lastOp.applied /\ lastOp.replace /\ lastOp.newest # 0
     /\ lastOp.match)
    => (items # <<>> /\ items[1].id = lastOp.newest)

\* A record created after start-up was prepended and persisted, the query was
\* then changed, and the first page for the new query starts with it.
C8_Witness ==
  /\ lastOp.op = "complete" /\ lastOp.applied /\ lastOp.replace /\ lastOp.match
  /\ lastOp.newest > InitRows
  /\ activeQueryRef # <<>>
  /\ Len(items) >= 2 /\ items[1].id = lastOp.newest

\* The rows of the probed list that match the probed query and lie below the
\* probed cursor.
ProbeCandidates ==
  {r \in store : /\ r.list = probe.l
                 /\ Like(r.text, LikePattern(probe.q))
                 /\ (probe.cursor # NoCursor => r.rowid < probe.cursor)}

ProbePageRows == {r \in store : \E k \in 1..Len(probe.resp.items) :
                                   r.id = probe.resp.items[k].id}

\* The page of the probe is the n candidates of highest rowid, in strictly
\* descending rowid order.
ProbePageIsTop(n) ==
  /\ Len(probe.resp.items) = Min(n, Cardinality(ProbeCandidates))
  /\ Cardinality(ProbePageRows) = Len(probe.resp.items)
  /\ ProbePageRows \subseteq ProbeCandidates
  /\ \A r \in ProbeCandidates \ ProbePageRows : \A x \in ProbePageRows : r.rowid < x.rowid
  /\ \A k \in 1..(Len(probe.resp.rowids) - 1) :
       probe.resp.rowids[k] > probe.resp.rowids[k + 1]
  /\ \A k \in 1..Len(probe.resp.items) :
       \E r \in store : r.id = probe.resp.items[k].id /\ r.rowid = probe.resp.rowids[k]

C10_TotalAndNextCursor ==
  probe.asked =>
    /\ probe.resp.total =
         Cardinality({r \in store : r.list = probe.l /\ Like(r.text, LikePattern(probe.q))})
    /\ (probe.resp.nextCursor = NoCursor) <=> (probe.resp.items = <<>>)
    /\ probe.resp.items # <<>> =>
         \E r \in store : /\ r.id = probe.resp.items[Len(probe.resp.items)].id
                          /\ r.rowid = probe.resp.nextCursor

\* A cursor-bounded page of more than one record whose total exceeds what the
\* cursor and the limit let through.
C10_Witness ==
  /\ probe.asked /\ probe.cursor # NoCursor
  /\ Len(probe.resp.items) >= 2
  /\ probe.resp.total > Cardinality(ProbeCandidates)
  /\ Cardinality(ProbeCandidates) > Len(probe.resp.items)

\* The text t contains the string q, letter case ignored.
ContainsCI(t, q) ==
  \E i \in 0..(Len(t) - Len(q)) : \A k \in 1..Len(q) : Lower(t[i + k]) = Lower(q[k])

\* C11 (substring match): the records a page query counts and returns are
\* exactly the records of the list whose text contains the query string as a
\* case-insensitive substring, whatever characters the query is made of.
C11_SubstringMatch ==
  probe.asked =>
    /\ probe.resp.total =
         Cardinality({r \in store : r.list = probe.l /\ ContainsCI(r.text, probe.q)})
    /\ \A k \in 1..Len(probe.resp.items) : ContainsCI(probe.resp.items[k].text, probe.q)

\* C12 (failed fetch): a page request that rejects leaves items, serverTotal,
\* dbFetched, nextCursorRef and activeQueryRef as they were; it clears the
\* in-flight guard, the loading indicator and the initial-load flag, so that
\* fetchPage gets past its guard again.
C12_FailedFetch ==
  [][lastOp'.op = "fail" =>
       /\ UNCHANGED <<items, serverTotal, dbFetched, nextCursorRef, activeQueryRef>>
       /\ ~isFetchingRef' /\ ~isLoadingMore' /\ ~isInitialLoad'
       /\ Len(inflight') = 0]_vars

\* A loadMore request has failed: the loaded prefix, its cursor and the
\* counters are still there and more pages remain.
C12_Witness ==
  /\ lastOp.op = "fail" /\ ~lastOp.replace
  /\ items # <<>> /\ nextCursorRef # NoCursor /\ hasMore
  /\ ~isFetchingRef /\ ~isLoadingMore /\ ~isInitialLoad

\* C13 (malformed response): a page response without items, total and
\* nextCursor leaves items, serverTotal, dbFetched and nextCursorRef as they
\* were, and no exception is thrown while rendering.
C13_MalformedResponse ==
  [][lastOp'.op \in {"malformed", "malformedRenderThrows"} =>
       /\ UNCHANGED <<items, serverTotal, dbFetched, nextCursorRef>>
       /\ lastOp'.op # "malformedRenderThrows"]_vars

\* C14 (no automatic retry): in the step that follows a failed page request,
\* a page request is issued only by a change of the search query.
C14_NoAutomaticRetry ==
  [][(lastOp.op = "fail" /\ Len(inflight') > Len(inflight))
       => lastOp'.op = "setQuery"]_vars

\* C15 (loadMore): a call of loadMore while a page request is out, or while
\* dbFetched >= serverTotal, issues no request and changes no field of the
\* cache; any other call issues exactly one request, for the current
\* activeQueryRef and nextCursorRef, to be appended, and changes no cached data.
C15_LoadMore ==
  [][lastOp'.op = "loadMoreCall" =>
       IF Len(inflight) > 0 \/ dbFetched >= serverTotal
       THEN UNCHANGED <<cache, inflight>>
       ELSE /\ Len(inflight') = 1
            /\ inflight'[1].q = activeQueryRef
            /\ inflight'[1].cursor = nextCursorRef
            /\ ~inflight'[1].replace
            /\ inflight'[1].phase = "sent"
            /\ UNCHANGED <<items, dbFetched, serverTotal, nextCursorRef,
                           activeQueryRef>>]_vars

\* loadMore was called while more pages remained and the request for the next
\* page, already answered by the server, was still out: nothing was issued.
C15_Witness ==
  /\ lastOp.op = "loadMoreCall"
  /\ hasMore
  /\ Len(inflight) = 1 /\ inflight[1].phase = "answered"
  /\ ~inflight[1].replace /\ inflight[1].cursor = nextCursorRef

C17_Remove ==
  [][lastOp'.op = "remove" =>
       \E c \in pending' \ pending :
         LET Keep(w) == w.id # c.id
         IN /\ c.op = "del"
            /\ items' = SelectSeq(items, Keep)
            /\ serverTotal' = (IF serverTotal > 0 THEN serverTotal - 1 ELSE 0)
            /\ dbFetched' = (IF dbFetched > 0 THEN dbFetched - 1 ELSE 0)
            /\ (serverTotal > 0 /\ dbFetched > 0) => (hasMore' <=> hasMore)]_vars

\* A cached record that was neither first nor last was removed while more
\* pages remained: hasMore is still true.
C17_Witness ==
  /\ lastOp.op = "remove"
  /\ Len(items) >= 2 /\ items[1].id > items[2].id + 1
  /\ hasMore /\ dbFetched = Len(items)

C19_Clear ==
  lastOp.op = "clear" =>
    /\ items = <<>> /\ serverTotal = 0 /\ dbFetched = 0
    /\ ~hasMore
    /\ nextCursorRef = NoCursor

\* clear() was called while the request for a further page was out.
C19_Witness ==
  /\ lastOp.op = "clear"
  /\ items = <<>> /\ nextCursorRef = NoCursor
  /\ Len(inflight) = 1 /\ inflight[1].cursor # NoCursor /\ ~inflight[1].replace

\* The default link of record id is none, or one of its preview links.
DefaultIsLink(id) ==
  defaultUrl[id] # NoUrl =>
    \E k \in 1..Len(previews[id]) : previews[id][k] = defaultUrl[id]

\* C20 (default preview link): in every state of the store the default link
\* of a record, if set, is one of the record's preview links; and when the
\* default link of a record is removed, the oldest remaining link becomes the
\* default, or none if no link remains.
C20_DefaultIsLink ==
  /\ [](\A id \in 1..MaxId : DefaultIsLink(id))
  /\ [][\A id \in 1..MaxId :
          (/\ store' = store
           /\ previews'[id] # previews[id]
           /\ \A k \in 1..Len(previews'[id]) : previews'[id][k] # defaultUrl[id])
          => defaultUrl'[id] = (IF previews'[id] = <<>> THEN NoUrl
                                ELSE previews'[id][1])]_vars

\* C21 (replace or append): an applied response to a request issued without a
\* cursor replaces items (items is exactly the page and dbFetched its length);
\* an applied response to a request issued with a cursor is appended after the
\* existing items; a request issued without a cursor is never appended.
C21_ReplaceOrAppend ==
  [][(lastOp'.op = "complete" /\ lastOp'.applied /\ Len(inflight) = 1) =>
       LET r == inflight[1]
       IN IF r.cursor = NoCursor
          THEN items' = r.resp.items /\ dbFetched' = Len(r.resp.items)
          ELSE items' = items \o r.resp.items]_vars

\* C22 (scheduler): whenever the rendered window (or another dependency of
\* the loadMore effect) has changed, the effect runs before anything else; a
\* run of the effect issues the request of loadMore() if and only if hasMore
\* is true, no page request is out and the index of the last rendered slot is
\* at least Len(items) - TRAIL; the request is the one loadMore() makes.
C22_Scheduler ==
  [][/\ EffectDue => lastOp'.op = "effect"
     /\ lastOp'.op = "effect" =>
          /\ (Len(inflight') = Len(inflight) + 1)
               <=> (hasMore /\ Len(inflight) = 0 /\ LastIndex >= Len(items) - TRAIL)
          /\ (~hasMore \/ Len(inflight) > 0) => UNCHANGED <<cache, inflight>>
          /\ Len(inflight') > Len(inflight) =>
               /\ inflight'[Len(inflight')].cursor = nextCursorRef
               /\ inflight'[Len(inflight')].q = activeQueryRef
               /\ ~inflight'[Len(inflight')].replace]_vars

\* The user scrolled down a list of which the window did not reach the end,
\* and the effect then asked for the next page.
C22_Witness ==
  /\ lastOp.op = "effect" /\ lastOp.applied
  /\ scrollTop > 0
  /\ Len(inflight) = 1 /\ inflight[1].phase = "sent" /\ inflight[1].cursor = nextCursorRef
  /\ Len(items) > VIEW_SLOTS

\* The effect ran while more pages remained and no request was out, and did
\* not call loadMore: the window ended before the trailing threshold.
C22_WitnessBelowThreshold ==
  /\ lastOp.op = "effect" /\ ~lastOp.applied
  /\ hasMore /\ inflight = <<>>
  /\ LastIndex < Len(items) - TRAIL

\* The window reaches within the threshold of the end of items while more
\* pages remain and no page request is out.
SparseDue ==
  /\ inflight = <<>> /\ hasMore
  /\ LastIndex >= Len(items) - TRAIL
  /\ Len(pages) < MaxPages

\* C23 (sparse list): whenever, after the first page of a mount or reset or
\* after any later page, more pages remain and the window reaches within the
\* threshold of the end of items, a request for a further page is issued
\* although the user never scrolls; so pages keep being fetched until the
\* window ends before the threshold or hasMore is false.
C23_SparseList ==
  SparseDue ~> (Len(inflight) = 1 /\ ~inflight[1].replace /\ scrollTop = 0)

\* Without a scroll, the effect asked for a third page of the same query: the
\* two pages applied so far left the window within the threshold of the end.
C23_Witness ==
  /\ lastOp.op = "effect" /\ lastOp.applied
  /\ scrollTop = 0
  /\ Len(pages) = 2
  /\ Len(inflight) = 1 /\ inflight[1].phase = "sent" /\ ~inflight[1].replace

\* C24 (render window): there are Len(items) + 1 slots when hasMore is true
\* and Len(items) otherwise; a rendered slot with index >= Len(items) is the
\* loading placeholder (there is at most one, and only when hasMore); and a
\* per-item action is dispatched only for a slot whose index is a valid index
\* of items, for the record in that slot.
C24_RenderWindow ==
  /\ [](/\ SlotCount = Len(items) + (IF dbFetched < serverTotal THEN 1 ELSE 0)
        /\ \A idx \in RenderedSlots :
             /\ idx \in 0..(SlotCount - 1)
             /\ idx >= Len(items) <=> ~CardAt(idx)
             /\ idx >= Len(items) => (idx = Len(items) /\ hasMore))
  /\ [][lastOp'.op \in {"cardRemove", "cardAction"} =>
          /\ lastOp'.n \in 0..(Len(items) - 1)
          /\ lastOp'.newest = items[lastOp'.n + 1].id]_vars

\* The remove button of the card in the last slot before the placeholder was
\* used: the placeholder is now in that slot.
C24_Witness ==
  /\ lastOp.op = "cardRemove"
  /\ hasMore
  /\ lastOp.n = Len(items) /\ lastOp.n > 0
  /\ lastOp.n \in RenderedSlots /\ ~CardAt(lastOp.n)

\* C25 (preview stepping): a wheel event on a card with two links or more
\* moves the shown index by one, wrapping around modulo the number of links,
\* and makes no call; with at most one link it does nothing.  A set-default
\* call is made only DEBOUNCE ticks after the last step, once, carrying the
\* link shown at that moment; and once DEBOUNCE ticks have passed since the
\* last step, that call has been made.
C25_PreviewStepping ==
  /\ [][/\ card'.op = "step" /\ card' # card =>
            /\ Len(card.urls) >= 2
            /\ card'.idx \in 0..(Len(card.urls) - 1)
            /\ \E k \in {-1, 0, 1} :
                 card'.idx = card.idx + card'.dir + k * Len(card.urls)
            /\ card'.calls = card.calls
        /\ card'.op = "wheelIgnored" /\ card' # card =>
            /\ Len(card.urls) <= 1
            /\ card'.idx = card.idx /\ card'.timer = card.timer
            /\ card'.calls = card.calls
        /\ card'.calls # card.calls =>
            /\ card'.calls = card.calls + 1
            /\ card.unsaved /\ card'.since = DEBOUNCE
            /\ card.idx < Len(card.urls)
            /\ card'.sent = card.urls[card.idx + 1]]_vars
  /\ [](~(card.unsaved /\ card.since >= DEBOUNCE))

\* C26 (no duplicate ids): items never holds two records with the same id.
C26_NoDuplicateIds ==
  \A j, k \in 1..Len(items) : j # k => items[j].id # items[k].id

\* The cache holds the first page of the current query as the table is now.
FirstPageLoaded ==
  LET resp == GetWildcards(store, list, activeQueryRef, NoCursor, PAGE_SIZE)
  IN /\ items = resp.items
     /\ serverTotal = resp.total
     /\ ~isInitialLoad

\* C27 (superseding query): when the search text changes while the request
\* for the previous query is still out, and every request resolves and the
\* user does nothing more, the cache eventually holds the first page of the
\* records matching the new query, serverTotal is their count and the
\* initial-load flag is cleared.
C27_SupersedingQueryLoads ==
  (lastOp.op = "setQuery" /\ Len(inflight) = 1 /\ inflight[1].q # activeQueryRef)
    ~> FirstPageLoaded

\* C28 (resets): the response of a page request is applied only if the cache
\* was not reset, by a change of the search query (a change away and back to
\* the same text included) or by clear(), between the moment the request was
\* issued and its completion; so after clear() items stays empty and
\* serverTotal 0 until a prepend, or until a request issued after the clear
\* completes.
C28_NoApplyAcrossReset ==
  [][/\ (lastOp'.op = "complete" /\ lastOp'.applied) => ~lastOp.stale
     /\ (lastOp.stale /\ items = <<>> /\ serverTotal = 0 /\ lastOp'.op # "prepend")
          => (items' = <<>> /\ serverTotal' = 0)]_vars

\* The 0-based position of record id in the list of records s, -1 if absent.
PosOf(s, id) ==
  IF \E k \in 1..Len(s) : s[k].id = id
  THEN CHOOSE k \in 1..Len(s) : s[k].id = id /\ \A j \in 1..(k - 1) : s[j].id # id
  ELSE -1

\* C29 (batch order): when the insert of a prepended batch of two or more
\* records reaches the store, the first page that a reset followed by a fresh
\* fetch puts in items holds the records of the batch in the relative order
\* that prepend gave them in items (the order of the batch).
C29_BatchOrder ==
  [][\A c \in pending \ pending' :
       (c.op = "add" /\ Len(c.batch) >= 2) =>
         LET page == GetWildcards(store', list, <<>>, NoCursor, PAGE_SIZE).items
         IN \A j, k \in 1..Len(c.batch) :
              (j < k /\ PosOf(page, c.batch[j].id) # -1 /\ PosOf(page, c.batch[k].id) # -1)
                => PosOf(page, c.batch[j].id) < PosOf(page, c.batch[k].id)]_vars

\* C30 (convergence): with the empty query, once no page request and no
\* persistence call is out and hasMore is false, the ids in items are exactly
\* the ids of the records of the list in the table, and serverTotal is their
\* number.
C30_Convergence ==
  (Idle /\ ~hasMore /\ activeQueryRef = <<>>) =>
    /\ {items[k].id : k \in 1..Len(items)} = {r.id : r \in Matching(store, list, <<>>)}
    /\ serverTotal = Cardinality(Matching(store, list, <<>>))

====
